---------------------------- MODULE Spec2Model ----------------------------
(***************************************************************************)
(* vCon lint / migration tooling (src/lint.py, src/migrations/2024_11_8.py) *)
(*                                                                         *)
(* Two state machines share this module:                                   *)
(*   Spec / FairSpec / SpecCrash : one batch run of main() (directory scan, *)
(*       thread pool mapping validate_file or migrate_file over the        *)
(*       candidates, collection of the results);                           *)
(*   SpecUnit : the per-file functions applied to one file drawn from a    *)
(*       bounded set (is_potential_vcon_file, validate_vcon, validate_file,*)
(*       migrate_file applied twice).                                      *)
(*                                                                         *)
(* A parsed JSON document is a record of the features the code inspects:   *)
(* its shape (dict / list / str / other scalar), which keys are "in" it,   *)
(* and, per key, the class of value the code distinguishes.  Timestamps    *)
(* carry their characters, because the migration rewrites them.            *)
(***************************************************************************)
EXTENDS Integers, Sequences, FiniteSets, TLC

(***************************************************************************)
(* Bounds                                                                  *)
(***************************************************************************)
\* longest timestamp, in segments ("T", "+00", ":00"), of the unit inputs
MaxSegs == 4
\* longest parties / dialog / analysis / attachments array of the unit inputs
MaxElems == 2
\* files in the scanned directory of a batch run
NumFiles == 2
\* largest --threads value of a batch run
MaxThreads == 2

(***************************************************************************)
(* Strings (sequences of one-character strings)                            *)
(***************************************************************************)
\* "T" abbreviates a date-time prefix such as 2024-09-05T21:22:52.749585
SegT == <<"T">>
SegP == <<"+", "0", "0">>
SegC == <<":", "0", "0">>
Segments == {SegT, SegP, SegC}

\* the literals of migrate_file's two replace() calls
OldSuffix == SegP \o SegP \o SegC
NewSuffix == SegP \o SegC

RECURSIVE SegStrings(_)
SegStrings(n) ==
    IF n = 0 THEN {<<>>}
    ELSE LET shorter == SegStrings(n - 1)
         IN  shorter \cup {s \o g : s \in shorter, g \in Segments}

StartsWith(s, p) == Len(s) >= Len(p) /\ SubSeq(s, 1, Len(p)) = p

RECURSIVE Contains(_, _)
Contains(s, p) ==
    IF Len(s) < Len(p) THEN FALSE
    ELSE StartsWith(s, p) \/ Contains(Tail(s), p)

\* str.replace(old, new): every non-overlapping occurrence, left to right
RECURSIVE Replace(_, _, _)
Replace(s, old, new) ==
    IF Len(s) < Len(old) THEN s
    ELSE IF StartsWith(s, old)
         THEN new \o Replace(SubSeq(s, Len(old) + 1, Len(s)), old, new)
         ELSE <<Head(s)>> \o Replace(Tail(s), old, new)

\* datetime.fromisoformat on the modelled strings (CPython 3.11): the
\* accepted ones among the strings of at most four segments
IsoAccepted ==
    { SegT, SegT \o SegP, SegT \o SegP \o SegC, SegT \o SegC \o SegP,
      SegT \o SegP \o SegC \o SegC, SegT \o SegC \o SegP \o SegC,
      SegT \o SegC \o SegC \o SegP }

(***************************************************************************)
(* Document model                                                          *)
(***************************************************************************)
TSAbsent == [k |-> "absent", s |-> <<>>]
TSNonStr == [k |-> "nonstr", s |-> <<>>]
TSStr(s) == [k |-> "str", s |-> s]

ArrAbsent == [k |-> "absent", e |-> <<>>]
ArrNonList == [k |-> "nonlist", e |-> <<>>]
ArrList(es) == [k |-> "list", e |-> es]

Doc(sh, v, u, c, up, par, dia, ana, att, r, a, g) ==
    [shape |-> sh, vcon |-> v, uuid |-> u, created_at |-> c, updated_at |-> up,
     parties |-> par, dialog |-> dia, analysis |-> ana, attachments |-> att,
     redacted |-> r, appended |-> a, group |-> g]

\* {} : the empty object
EmptyDoc ==
    Doc("obj", "absent", "absent", TSAbsent, TSAbsent,
        ArrAbsent, ArrAbsent, ArrAbsent, ArrAbsent, FALSE, FALSE, FALSE)

\* key in doc (dict key, list element or substring; a scalar raises before)
Has(d, key) ==
    CASE key = "vcon" -> d.vcon # "absent"
      [] key = "uuid" -> d.uuid # "absent"
      [] key = "created_at" -> d.created_at.k # "absent"
      [] key = "updated_at" -> d.updated_at.k # "absent"
      [] key = "parties" -> d.parties.k # "absent"
      [] key = "dialog" -> d.dialog.k # "absent"
      [] key = "analysis" -> d.analysis.k # "absent"
      [] key = "attachments" -> d.attachments.k # "absent"
      [] key = "redacted" -> d.redacted
      [] key = "appended" -> d.appended
      [] key = "group" -> d.group

(***************************************************************************)
(* Rule engine (src/lint.py)                                               *)
(***************************************************************************)
Finding(m, a, i) == [m |-> m, a |-> a, i |-> i]

\* the result of a piece of straight-line code: the findings it appended,
\* or an exception it let escape
Raise == [raised |-> TRUE, errors |-> <<>>]
Ok(errs) == [raised |-> FALSE, errors |-> errs]

Then(r1, r2) ==
    IF r1.raised THEN Raise
    ELSE IF r2.raised THEN Raise
    ELSE Ok(r1.errors \o r2.errors)

RECURSIVE ThenAll(_)
ThenAll(rs) == IF rs = <<>> THEN Ok(<<>>) ELSE Then(Head(rs), ThenAll(Tail(rs)))

Opt(cond, f) == IF cond THEN <<f>> ELSE <<>>

validate_party(party, index) ==
    LET ident ==
            IF party.shape = "scalar" THEN Raise
            ELSE Ok(Opt(party.tel = "absent" /\ party.mailto = "absent" /\ ~party.name,
                        Finding("party: no identifier", "", index)))
        tel ==
            IF party.tel = "absent" THEN Ok(<<>>)
            ELSE IF party.shape # "obj" \/ party.tel = "nonstr" THEN Raise
            ELSE Ok(Opt(party.tel = "noplus", Finding("party: tel", "", index)))
        mailto ==
            IF party.mailto = "absent" THEN Ok(<<>>)
            ELSE IF party.shape # "obj" \/ party.mailto = "noniter" THEN Raise
            ELSE Ok(Opt(party.mailto = "noat", Finding("party: mailto", "", index)))
    IN  ThenAll(<<ident, tel, mailto>>)

validate_dialog(dialog, index) ==
    LET required ==
            IF dialog.shape = "scalar" THEN Raise
            ELSE Ok(Opt(dialog.type = "absent", Finding("dialog: missing", "type", index))
                    \o Opt(dialog.start = "absent", Finding("dialog: missing", "start", index))
                    \o Opt(dialog.parties = "absent", Finding("dialog: missing", "parties", index)))
        type ==
            IF dialog.type = "absent" THEN Ok(<<>>)
            ELSE IF dialog.shape # "obj" THEN Raise
            ELSE Ok(Opt(dialog.type = "invalid", Finding("dialog: type", "", index)))
        start ==
            IF dialog.start = "absent" THEN Ok(<<>>)
            ELSE IF dialog.shape # "obj" \/ dialog.start = "nonstr" THEN Raise
            ELSE Ok(Opt(dialog.start = "notiso", Finding("dialog: start", "", index)))
        parties ==
            IF dialog.parties = "absent" THEN Ok(<<>>)
            ELSE IF dialog.shape # "obj" THEN Raise
            ELSE Ok(Opt(dialog.parties = "other", Finding("dialog: parties", "", index)))
        duration ==
            IF dialog.duration = "absent" THEN Ok(<<>>)
            ELSE IF dialog.shape # "obj" THEN Raise
            ELSE Ok(Opt(dialog.duration = "nonnum", Finding("dialog: duration", "", index)))
    IN  ThenAll(<<required, type, start, parties, duration>>)

validate_analysis(analysis, index) ==
    IF analysis.shape = "scalar" THEN Raise
    ELSE Ok(Opt(~analysis.type, Finding("analysis: missing", "type", index)))

validate_attachment(attachment, index) == Ok(<<>>)

\* the timestamp check of created_at and updated_at
CheckTimestamp(d, key, ts) ==
    IF ~Has(d, key) THEN Ok(<<>>)
    ELSE IF d.shape # "obj" \/ ts.k = "nonstr" THEN Raise
    ELSE Ok(Opt(ts.s \notin IsoAccepted, Finding("invalid date", key, -1)))

\* the array-then-element check of parties, dialog, analysis, attachments
CheckArray(d, key, arr, results) ==
    IF ~Has(d, key) THEN Ok(<<>>)
    ELSE IF d.shape # "obj" THEN Raise
    ELSE IF arr.k = "nonlist" THEN Ok(<<Finding("must be an array", key, -1)>>)
    ELSE ThenAll(results)

MissingRequired(vcon) ==
    Opt(~Has(vcon, "vcon"), Finding("missing", "vcon", -1))
    \o Opt(~Has(vcon, "uuid"), Finding("missing", "uuid", -1))
    \o Opt(~Has(vcon, "created_at"), Finding("missing", "created_at", -1))

ExclusiveCount(vcon) ==
    Cardinality({key \in {"redacted", "appended", "group"} : Has(vcon, key)})

validate_vcon(vcon) ==
    LET required == Ok(MissingRequired(vcon))
        version ==
            IF ~Has(vcon, "vcon") THEN Ok(<<>>)
            ELSE IF vcon.shape # "obj" THEN Raise
            ELSE Ok(Opt(vcon.vcon # "ok", Finding("version", "", -1)))
        uuid ==
            IF ~Has(vcon, "uuid") THEN Ok(<<>>)
            ELSE IF vcon.shape # "obj" THEN Raise
            ELSE Ok(Opt(vcon.uuid = "nonstr", Finding("uuid", "", -1)))
        created == CheckTimestamp(vcon, "created_at", vcon.created_at)
        updated == CheckTimestamp(vcon, "updated_at", vcon.updated_at)
        parties ==
            CheckArray(vcon, "parties", vcon.parties,
                [i \in 1..Len(vcon.parties.e) |-> validate_party(vcon.parties.e[i], i - 1)])
        dialog ==
            CheckArray(vcon, "dialog", vcon.dialog,
                [i \in 1..Len(vcon.dialog.e) |-> validate_dialog(vcon.dialog.e[i], i - 1)])
        analysis ==
            CheckArray(vcon, "analysis", vcon.analysis,
                [i \in 1..Len(vcon.analysis.e) |-> validate_analysis(vcon.analysis.e[i], i - 1)])
        attachments ==
            CheckArray(vcon, "attachments", vcon.attachments,
                [i \in 1..Len(vcon.attachments.e) |-> validate_attachment(vcon.attachments.e[i], i - 1)])
        exclusive == Ok(Opt(ExclusiveCount(vcon) > 1, Finding("mutually exclusive", "", -1)))
    IN  IF vcon.shape = "scalar" THEN Raise
        ELSE ThenAll(<<required, version, uuid, created, updated,
                       parties, dialog, analysis, attachments, exclusive>>)


(***************************************************************************)
(* Files                                                                   *)
(***************************************************************************)
\* a file: the suffix of its name, what reading and parsing it gives, and
\* (when it parses) the parsed document
File(ext, raw, doc) == [ext |-> ext, raw |-> raw, doc |-> doc]

Exts == {".json", ".JSON", ".txt"}

\* str.lower() on the modelled suffixes
Lower(ext) == IF ext = ".JSON" THEN ".json" ELSE ext

\* raw contents that are no JSON value the parser returns
BadRaws == {"unreadable", "badutf8", "badjson", "bigint", "deep"}

\* open(file_path, 'r', encoding='utf-8') and json.load(f): "ok" or the
\* exception raised.  "bigint" is a number of more than 4300 digits
\* (ValueError), "deep" a nesting deeper than the recursion limit;
\* "empty" and "partial" are what an interrupted rewrite leaves.
ReadOutcome(file) ==
    CASE file.raw = "value" -> "ok"
      [] file.raw = "unreadable" -> "IOError"
      [] file.raw = "badutf8" -> "UnicodeDecodeError"
      [] file.raw \in {"badjson", "empty", "partial"} -> "JSONDecodeError"
      [] file.raw = "bigint" -> "ValueError"
      [] file.raw = "deep" -> "RecursionError"

\* "true", "false", or "raised" when an exception leaves the function
is_potential_vcon_file(file) ==
    IF Lower(file.ext) # ".json" THEN "false"
    ELSE LET r == ReadOutcome(file)
         IN  IF r = "ok"
             THEN IF file.doc.shape = "obj" /\ Has(file.doc, "vcon") THEN "true" ELSE "false"
             ELSE IF r \in {"JSONDecodeError", "UnicodeDecodeError", "IOError"} THEN "false"
             ELSE "raised"

InvalidJSON == Finding("Invalid JSON", "", -1)
UnexpectedError == Finding("Unexpected error", "", -1)

\* the exception classes the model raises; all derive from Exception
Exceptions == {"JSONDecodeError", "UnicodeDecodeError", "IOError", "ValueError",
               "RecursionError", "TypeError", "AttributeError"}

\* a faulty variant of Catches: only the JSONDecodeError clause is there
CatchesJSONOnly(exc) == exc = "JSONDecodeError"

\* the except clauses of validate_file and migrate_file taken together:
\* except json.JSONDecodeError, then except Exception
Catches(exc) == exc \in Exceptions

\* the result of a per-file operation that raised exc inside its try block
\* (exc records which exception it was)
Recovered(exc) ==
    IF ~Catches(exc) THEN [escaped |-> TRUE, errors |-> <<>>, exc |-> exc]
    ELSE IF exc = "JSONDecodeError"
    THEN [escaped |-> FALSE, errors |-> <<InvalidJSON>>, exc |-> exc]
    ELSE [escaped |-> FALSE, errors |-> <<UnexpectedError>>, exc |-> exc]

\* the result of a per-file operation that reached its return statement
Returned(errs) == [escaped |-> FALSE, errors |-> errs, exc |-> "none"]

\* validate_file, given what open and json.load gave (r) and the data
validate_file(r, data) ==
    IF r # "ok" THEN Recovered(r)
    ELSE LET v == validate_vcon(data)
         IN  IF v.raised THEN Recovered("TypeError") ELSE Returned(v.errors)

(***************************************************************************)
(* Migration transform (src/migrations/2024_11_8.py)                       *)
(***************************************************************************)
FixTimestamp(ts) == TSStr(Replace(ts.s, OldSuffix, NewSuffix))

Markers == {"redacted", "appended", "group"}

\* lines 18-42 on the parsed data: whether an exception escaped them, the
\* data as rewritten and the value of `updated`
Transform(data) ==
    LET present == {key \in {"created_at", "updated_at"} \cup Markers : Has(data, key)}
        raised ==
            \/ data.shape = "scalar"
            \/ data.shape # "obj" /\ present # {}
            \/ Has(data, "created_at") /\ data.created_at.k = "nonstr"
            \/ Has(data, "updated_at") /\ data.updated_at.k = "nonstr"
        rewritten ==
            [data EXCEPT !.created_at = IF @.k = "str" THEN FixTimestamp(@) ELSE @,
                         !.updated_at = IF @.k = "str" THEN FixTimestamp(@) ELSE @,
                         !.redacted = FALSE, !.appended = FALSE, !.group = FALSE]
    IN  IF raised THEN [raised |-> TRUE, data |-> data, updated |-> FALSE]
        ELSE [raised |-> FALSE, data |-> rewritten, updated |-> present # {}]

\* migrate_file up to its write, given what open and json.load gave (r)
\* and the data: its result when it returns without writing, or the data
\* it goes on to write
migrate_read(r, data) ==
    LET t == Transform(data)
    IN  IF r # "ok" THEN [write |-> FALSE, data |-> data, res |-> Recovered(r)]
        ELSE IF t.raised THEN [write |-> FALSE, data |-> data, res |-> Recovered("AttributeError")]
        ELSE [write |-> t.updated, data |-> t.data, res |-> Returned(<<>>)]

\* the file after open(file_path, 'w') and json.dump(data, f, indent=2) ran to the end
Written(file, data) == [file EXCEPT !.raw = "value", !.doc = data]

(***************************************************************************)
(* Inputs of the unit specification                                        *)
(***************************************************************************)
TSValid == TSStr(SegT \o SegP \o SegC)
TSDoubled == TSStr(SegT \o OldSuffix)
TSReps == {TSAbsent, TSNonStr, TSValid, TSDoubled}
TSInputs == {TSAbsent, TSNonStr} \cup {TSStr(s) : s \in SegStrings(MaxSegs)}

RECURSIVE SeqsUpTo(_, _)
SeqsUpTo(S, n) ==
    IF n = 0 THEN {<<>>}
    ELSE LET shorter == SeqsUpTo(S, n - 1)
         IN  shorter \cup {Append(s, x) : s \in shorter, x \in S}

Party(sh, tel, mailto, name) == [shape |-> sh, tel |-> tel, mailto |-> mailto, name |-> name]
PartyInputs ==
    { Party("obj", "plus", "at", TRUE), Party("obj", "absent", "absent", FALSE),
      Party("obj", "noplus", "noat", FALSE), Party("obj", "nonstr", "absent", TRUE),
      Party("obj", "absent", "noniter", TRUE), Party("scalar", "absent", "absent", FALSE),
      Party("list", "absent", "absent", FALSE), Party("str", "plus", "absent", FALSE) }

Dialog(sh, type, start, parties, duration) ==
    [shape |-> sh, type |-> type, start |-> start, parties |-> parties, duration |-> duration]
DialogInputs ==
    { Dialog("obj", "valid", "iso", "intlist", "num"),
      Dialog("obj", "absent", "absent", "absent", "absent"),
      Dialog("obj", "invalid", "notiso", "other", "nonnum"),
      Dialog("obj", "valid", "nonstr", "intlist", "absent"),
      Dialog("scalar", "absent", "absent", "absent", "absent"),
      Dialog("list", "absent", "absent", "absent", "absent"),
      Dialog("str", "valid", "absent", "absent", "absent") }

Analysis(sh, type) == [shape |-> sh, type |-> type]
AnalysisInputs ==
    { Analysis("obj", TRUE), Analysis("obj", FALSE),
      Analysis("scalar", FALSE), Analysis("list", FALSE) }

Attachment(sh) == [shape |-> sh]
AttachmentInputs == {Attachment("obj"), Attachment("scalar")}

ArrInputs(S) == {ArrAbsent, ArrNonList} \cup {ArrList(es) : es \in SeqsUpTo(S, MaxElems)}

\* objects with every class of every top-level scalar, and no array
ScalarDocs ==
    { Doc("obj", v, u, c, up, ArrAbsent, ArrAbsent, ArrAbsent, ArrAbsent, r, a, g) :
        v \in {"absent", "ok", "other"}, u \in {"absent", "str", "nonstr"},
        c \in TSReps, up \in TSReps, r \in BOOLEAN, a \in BOOLEAN, g \in BOOLEAN }

\* objects with arrays (one array at a time, and all four together)
ArrayBases ==
    { Doc("obj", "ok", u, c, TSAbsent, ArrAbsent, ArrAbsent, ArrAbsent, ArrAbsent, r, FALSE, r) :
        u \in {"absent", "str"}, c \in {TSAbsent, TSValid}, r \in BOOLEAN }
ArrayDocs ==
    UNION { {[d EXCEPT !.parties = x] : x \in ArrInputs(PartyInputs)}
            \cup {[d EXCEPT !.dialog = x] : x \in ArrInputs(DialogInputs)}
            \cup {[d EXCEPT !.analysis = x] : x \in ArrInputs(AnalysisInputs)}
            \cup {[d EXCEPT !.attachments = x] : x \in ArrInputs(AttachmentInputs)}
            \cup {[d EXCEPT !.parties = ArrList(<<p>>), !.dialog = ArrList(<<x>>),
                            !.analysis = ArrList(<<y>>), !.attachments = ArrList(<<z>>)] :
                    p \in {Party("obj", "plus", "at", TRUE), Party("obj", "absent", "absent", FALSE)},
                    x \in {Dialog("obj", "valid", "iso", "intlist", "num"),
                           Dialog("obj", "absent", "absent", "absent", "absent")},
                    y \in {Analysis("obj", TRUE), Analysis("obj", FALSE)},
                    z \in AttachmentInputs}
          : d \in ArrayBases }

\* documents that are no object: lists and strings (by the keys "in" them)
\* and one other scalar
NonObjectDocs ==
    { Doc(sh, v, "absent", c, TSAbsent, ArrAbsent, ArrAbsent, ArrAbsent, ArrAbsent, r, FALSE, r) :
        sh \in {"list", "str"}, v \in {"absent", "other"},
        c \in {TSAbsent, TSNonStr}, r \in BOOLEAN }
    \cup {[EmptyDoc EXCEPT !.shape = "scalar"]}

\* objects with every timestamp string of the bound in one of the two
\* timestamps, and a representative of each class in the other
TimestampPairs == (TSInputs \X TSReps) \cup (TSReps \X TSInputs)
MigrationDocs ==
    { Doc("obj", "ok", "str", ts[1], ts[2], ArrAbsent, ArrAbsent, ArrAbsent, ArrAbsent, r, a, g) :
        ts \in TimestampPairs, r \in BOOLEAN, a \in BOOLEAN, g \in BOOLEAN }

UnitDocs == ScalarDocs \cup ArrayDocs \cup NonObjectDocs \cup MigrationDocs

UnitFiles ==
    {File(".json", "value", d) : d \in UnitDocs}
    \cup {File(e, "value", d) : e \in Exts,
            d \in {EmptyDoc, [EmptyDoc EXCEPT !.vcon = "ok"], [EmptyDoc EXCEPT !.vcon = "other"],
                   [EmptyDoc EXCEPT !.shape = "list", !.vcon = "other"]}}
    \cup {File(e, raw, EmptyDoc) : e \in Exts, raw \in BadRaws}

(***************************************************************************)
(* State                                                                   *)
(***************************************************************************)
VARIABLES
    mode,             \* "validate" (lint.py) or "migrate" (2024_11_8.py); "unit" in SpecUnit
    threads,          \* args.threads
    disk,             \* path -> file
    disk0,            \* the directory as the run found it
    pc,               \* where main() is
    scanned,          \* paths the directory scan has examined
    potential_files,  \* the candidates, in scan order
    queue,            \* index of the next work item of the executor
    wpc,              \* worker -> where it is in the per-file operation
    wtask,            \* worker -> index of its work item
    wdata,            \* worker -> the data migrate_file is about to dump
    futures,          \* work item -> its future
    results,          \* the outcomes main() has received, in order
    writes,           \* [w, item, path]: worker w, on work item `item`, opened path for writing
    ufile,            \* SpecUnit: the file
    ufile0,           \* SpecUnit: the file as drawn
    uphase,           \* SpecUnit: the operation applied last
    ucls,             \* SpecUnit: result of is_potential_vcon_file
    uval,             \* SpecUnit: result of validate_vcon
    ures,             \* SpecUnit: result of validate_file / migrate_file
    upasses           \* SpecUnit: per migrate_file pass, [updated, wrote, after]

batchVars == <<mode, threads, disk, disk0, pc, scanned, potential_files, queue,
               wpc, wtask, wdata, futures, results, writes>>
unitVars == <<ufile, ufile0, uphase, ucls, uval, ures, upasses>>
vars == <<batchVars, unitVars>>

Paths == 1..NumFiles
Workers == 1..MaxThreads

NoFuture == [done |-> FALSE, path |-> 0, from |-> 0, res |-> Returned(<<>>)]

(***************************************************************************)
(* Batch run: main() of lint.py and of migrations/2024_11_8.py             *)
(***************************************************************************)
\* the files a scanned directory is drawn from
BatchFiles ==
    { File(".txt", "value", [EmptyDoc EXCEPT !.vcon = "ok"]),
      File(".json", "bigint", EmptyDoc),
      File(".json", "value", [EmptyDoc EXCEPT !.vcon = "ok", !.uuid = "str"]),
      File(".json", "value", [EmptyDoc EXCEPT !.vcon = "ok", !.created_at = TSValid]),
      File(".json", "value",
           [EmptyDoc EXCEPT !.vcon = "ok", !.created_at = TSDoubled, !.redacted = TRUE]),
      File(".json", "value", [EmptyDoc EXCEPT !.vcon = "other", !.created_at = TSNonStr]) }

UnitIdle ==
    /\ ufile = File(".json", "value", EmptyDoc)
    /\ ufile0 = ufile
    /\ uphase = "off"
    /\ ucls = "none"
    /\ uval = Ok(<<>>)
    /\ ures = Returned(<<>>)
    /\ upasses = <<>>

Init ==
    /\ mode \in {"validate", "migrate"}
    /\ threads \in 1..MaxThreads
    /\ disk \in [Paths -> BatchFiles]
    /\ disk0 = disk
    /\ pc = "scan"
    /\ scanned = 0
    /\ potential_files = <<>>
    /\ queue = 1
    /\ wpc = [w \in Workers |-> "idle"]
    /\ wtask = [w \in Workers |-> 0]
    /\ wdata = [w \in Workers |-> EmptyDoc]
    /\ futures = [i \in Paths |-> NoFuture]
    /\ results = <<>>
    /\ writes = {}
    /\ UnitIdle

\* directory.rglob("*.json"): the pattern is matched as the file system
\* compares names (case-sensitively here)
Rglob(file) == file.ext = ".json"

\* one iteration of the list comprehension that builds potential_files
ScanFile ==
    /\ pc = "scan"
    /\ scanned < NumFiles
    /\ LET path == scanned + 1
           cls == IF Rglob(disk[path]) THEN is_potential_vcon_file(disk[path]) ELSE "false"
       IN  /\ scanned' = path
           /\ pc' = IF cls = "raised" THEN "aborted" ELSE pc
           /\ potential_files' =
                IF cls = "true" THEN Append(potential_files, path) ELSE potential_files
    /\ UNCHANGED <<mode, threads, disk, disk0, queue, wpc, wtask, wdata,
                   futures, results, writes, unitVars>>

\* `if not potential_files: return`, else the executor is created and
\* executor.map submits one work item per candidate
ScanEnd ==
    /\ pc = "scan"
    /\ scanned = NumFiles
    /\ pc' = IF potential_files = <<>> THEN "nofiles" ELSE "run"
    /\ UNCHANGED <<mode, threads, disk, disk0, scanned, potential_files, queue,
                   wpc, wtask, wdata, futures, results, writes, unitVars>>

\* a faulty variant of NextItem: the queue hands out every other work item
NextItemSkips(q) == q + 2

\* the work queue after a worker took item q
NextItem(q) == q + 1

\* the argument executor.map passes to the i-th call
ItemPath(files, i) == files[i]

\* worker thread w exists, is idle, and the executor's queue is not empty
CanTake(w) ==
    /\ pc = "run"
    /\ w <= threads
    /\ wpc[w] = "idle"
    /\ queue <= Len(potential_files)

\* a worker thread takes the next work item off the executor's queue
Take(w) ==
    /\ CanTake(w)
    /\ wtask' = [wtask EXCEPT ![w] = queue]
    /\ queue' = NextItem(queue)
    /\ wpc' = [wpc EXCEPT ![w] = "taken"]
    /\ UNCHANGED <<mode, threads, disk, disk0, pc, scanned, potential_files,
                   wdata, futures, results, writes, unitVars>>

\* what a worker's open() and json.load() can give for a candidate: the
\* file as it is on disk, or a failure of the environment since the scan
\* (the file became unreadable, or was replaced by something unparsable)
ReadOutcomes(file) == {ReadOutcome(file), "IOError", "JSONDecodeError"}

Complete(w, path, res) ==
    /\ futures' = [futures EXCEPT ![wtask[w]] =
                     [done |-> TRUE, path |-> path, from |-> path, res |-> res]]
    /\ wpc' = [wpc EXCEPT ![w] = "idle"]
    /\ wtask' = [wtask EXCEPT ![w] = 0]
    /\ wdata' = [wdata EXCEPT ![w] = EmptyDoc]

\* validate_file, or migrate_file up to `if updated:`
Process(w) ==
    /\ pc = "run"
    /\ wpc[w] = "taken"
    /\ LET path == ItemPath(potential_files, wtask[w])
       IN  \E r \in ReadOutcomes(disk[path]) :
             IF mode = "validate"
             THEN /\ Complete(w, path, validate_file(r, disk[path].doc))
             ELSE LET m == migrate_read(r, disk[path].doc)
                  IN  IF m.write
                      THEN /\ wpc' = [wpc EXCEPT ![w] = "writing"]
                           /\ wdata' = [wdata EXCEPT ![w] = m.data]
                           /\ UNCHANGED <<futures, wtask>>
                      ELSE Complete(w, path, m.res)
    /\ UNCHANGED <<mode, threads, disk, disk0, pc, scanned, potential_files,
                   queue, results, writes, unitVars>>

\* a faulty variant of WritePath: the rewrite goes to the first candidate's path
WritePathFirst(files, i) == files[1]

\* the path migrate_file opens for writing: the one it was given
WritePath(files, i) == ItemPath(files, i)

\* open(file_path, 'w'): the file is truncated, or the open fails
OpenWrite(w) ==
    /\ pc = "run"
    /\ wpc[w] = "writing"
    /\ LET path == WritePath(potential_files, wtask[w])
       IN  \E fails \in BOOLEAN :
             IF fails
             THEN /\ Complete(w, ItemPath(potential_files, wtask[w]), Recovered("IOError"))
                  /\ UNCHANGED <<disk, writes>>
             ELSE /\ disk' = [disk EXCEPT ![path].raw = "empty"]
                  /\ writes' = writes \cup {[w |-> w, item |-> wtask[w], path |-> path]}
                  /\ wpc' = [wpc EXCEPT ![w] = "dumping"]
                  /\ UNCHANGED <<futures, wtask, wdata>>
    /\ UNCHANGED <<mode, threads, disk0, pc, scanned, potential_files,
                   queue, results, unitVars>>

\* json.dump: part of the text reaches the file
DumpChunk(w) ==
    /\ pc = "run"
    /\ wpc[w] = "dumping"
    /\ LET path == WritePath(potential_files, wtask[w])
       IN  /\ disk[path].raw = "empty"
           /\ disk' = [disk EXCEPT ![path].raw = "partial"]
    /\ UNCHANGED <<mode, threads, disk0, pc, scanned, potential_files, queue,
                   wpc, wtask, wdata, futures, results, writes, unitVars>>

\* json.dump and the close of the file run to the end, or a write fails
DumpEnd(w) ==
    /\ pc = "run"
    /\ wpc[w] = "dumping"
    /\ LET path == WritePath(potential_files, wtask[w])
       IN  \E fails \in BOOLEAN :
             IF fails
             THEN /\ Complete(w, ItemPath(potential_files, wtask[w]), Recovered("IOError"))
                  /\ UNCHANGED disk
             ELSE /\ Complete(w, ItemPath(potential_files, wtask[w]), Returned(<<>>))
                  /\ disk' = [disk EXCEPT ![path] = Written(@, wdata[w])]
    /\ UNCHANGED <<mode, threads, disk0, pc, scanned, potential_files,
                   queue, results, writes, unitVars>>

\* main() takes the next result off executor.map's iterator, which yields
\* them in submission order and re-raises what a call raised
CanCollect ==
    /\ pc = "run"
    /\ Len(results) < Len(potential_files)
    /\ futures[Len(results) + 1].done

Collect ==
    /\ CanCollect
    /\ LET f == futures[Len(results) + 1]
       IN  /\ IF f.res.escaped
              THEN pc' = "aborted" /\ UNCHANGED results
              ELSE /\ results' = Append(results, [path |-> f.path, from |-> f.from,
                                                  errors |-> f.res.errors])
                   /\ UNCHANGED pc
    /\ UNCHANGED <<mode, threads, disk, disk0, scanned, potential_files, queue,
                   wpc, wtask, wdata, futures, writes, unitVars>>

\* the iterator is exhausted and the executor has shut down
CanFinish ==
    /\ pc = "run"
    /\ Len(results) = Len(potential_files)
    /\ \A w \in Workers : wpc[w] = "idle"

Finish ==
    /\ CanFinish
    /\ pc' = "done"
    /\ UNCHANGED <<mode, threads, disk, disk0, scanned, potential_files, queue,
                   wpc, wtask, wdata, futures, results, writes, unitVars>>

\* the process is killed
Crash ==
    /\ pc = "run"
    /\ pc' = "crashed"
    /\ UNCHANGED <<mode, threads, disk, disk0, scanned, potential_files, queue,
                   wpc, wtask, wdata, futures, results, writes, unitVars>>

Next ==
    \/ ScanFile
    \/ ScanEnd
    \/ \E w \in Workers : Take(w)
    \/ \E w \in Workers : Process(w)
    \/ \E w \in Workers : OpenWrite(w)
    \/ \E w \in Workers : DumpChunk(w)
    \/ \E w \in Workers : DumpEnd(w)
    \/ Collect
    \/ Finish

Spec == Init /\ [][Next]_vars

\* every thread that can take a step eventually does; json.dump need not
\* take the DumpChunk step
Fairness ==
    /\ WF_vars(ScanFile \/ ScanEnd \/ Collect \/ Finish)
    /\ \A w \in Workers :
         WF_vars(Take(w) \/ Process(w) \/ OpenWrite(w) \/ DumpEnd(w))

FairSpec == Spec /\ Fairness

NextCrash == Next \/ Crash

SpecCrash == Init /\ [][NextCrash]_vars

(***************************************************************************)
(* Unit specification: the per-file functions on one file                  *)
(***************************************************************************)
BatchIdle ==
    /\ mode = "unit"
    /\ threads = 1
    /\ disk = [p \in Paths |-> File(".txt", "value", EmptyDoc)]
    /\ disk0 = disk
    /\ pc = "unit"
    /\ scanned = 0
    /\ potential_files = <<>>
    /\ queue = 1
    /\ wpc = [w \in Workers |-> "idle"]
    /\ wtask = [w \in Workers |-> 0]
    /\ wdata = [w \in Workers |-> EmptyDoc]
    /\ futures = [i \in Paths |-> NoFuture]
    /\ results = <<>>
    /\ writes = {}

InitUnit ==
    /\ BatchIdle
    /\ ufile \in UnitFiles
    /\ ufile0 = ufile
    /\ uphase = "new"
    /\ ucls = "none"
    /\ uval = Ok(<<>>)
    /\ ures = Returned(<<>>)
    /\ upasses = <<>>

\* is_potential_vcon_file(file)
Classify ==
    /\ uphase = "new"
    /\ ucls' = is_potential_vcon_file(ufile)
    /\ uphase' = "classified"
    /\ UNCHANGED <<batchVars, ufile, ufile0, uval, ures, upasses>>

\* validate_vcon(data) on the parsed content of the file
ValidateVcon ==
    /\ uphase = "new"
    /\ ufile.raw = "value"
    /\ uval' = validate_vcon(ufile.doc)
    /\ uphase' = "validated"
    /\ UNCHANGED <<batchVars, ufile, ufile0, ucls, ures, upasses>>

\* validate_file(file)
ValidateFile ==
    /\ uphase = "new"
    /\ ures' = validate_file(ReadOutcome(ufile), ufile.doc)
    /\ uphase' = "file_validated"
    /\ UNCHANGED <<batchVars, ufile, ufile0, ucls, uval, upasses>>

\* migrate_file(file), run to its end; a second application follows the first
MigrateFile ==
    /\ uphase \in {"new", "migrated"}
    /\ Len(upasses) < 2
    /\ LET m == migrate_read(ReadOutcome(ufile), ufile.doc)
           after == IF m.write THEN Written(ufile, m.data) ELSE ufile
       IN  /\ ufile' = after
           /\ ures' = m.res
           /\ upasses' = Append(upasses, [updated |-> m.write, after |-> after])
    /\ uphase' = "migrated"
    /\ UNCHANGED <<batchVars, ufile0, ucls, uval>>

NextUnit == Classify \/ ValidateVcon \/ ValidateFile \/ MigrateFile

SpecUnit == InitUnit /\ [][NextUnit]_vars

(***************************************************************************)
(* Properties of the batch run                                             *)
(***************************************************************************)
\* the paths the scan of the directory as found should select
Candidates ==
    {p \in Paths : Rglob(disk0[p]) /\ is_potential_vcon_file(disk0[p]) = "true"}

BatchOutcomesExact ==
    /\ Len(results) = Len(potential_files)
    /\ {results[i].path : i \in 1..Len(results)} = Candidates
    /\ \A i, j \in 1..Len(results) : i # j => results[i].path # results[j].path
    /\ \A i \in 1..Len(results) :
         results[i].from = results[i].path /\ results[i].path = potential_files[i]

\* steps work item i still has to take, at most
ItemSteps(i) ==
    IF i <= Len(results) THEN 0
    ELSE IF futures[i].done THEN 1
    ELSE IF \E w \in Workers : wtask[w] = i
    THEN LET w == CHOOSE v \in Workers : wtask[v] = i
         IN  CASE wpc[w] = "taken" -> 5
               [] wpc[w] = "writing" -> 4
               [] wpc[w] = "dumping" ->
                    IF disk[potential_files[i]].raw = "empty" THEN 3 ELSE 2
               [] OTHER -> 6
    ELSE 6

RECURSIVE SumSteps(_)
SumSteps(n) == IF n = 0 THEN 0 ELSE ItemSteps(n) + SumSteps(n - 1)

\* steps the run still has to take, at most
Variant ==
    CASE pc = "scan" -> (NumFiles - scanned) + 2 + 6 * NumFiles
      [] pc = "run" -> 1 + SumSteps(Len(potential_files))
      [] OTHER -> 0

\* while the pool runs, some thread can take a step: a worker is inside a
\* per-file operation (Process, OpenWrite and DumpEnd have no other guard),
\* or can take an item, or main() can take a result or finish
RunCanStep ==
    \/ \E w \in Workers : wpc[w] # "idle" \/ CanTake(w)
    \/ CanCollect
    \/ CanFinish

\* C1: a batch run, in either mode and with any pool size, cannot run for
\* ever (each step lowers a bound on the steps left), is never stuck before
\* its end, and at its end has exactly one outcome per candidate file: none
\* missing, none twice, each carrying the path it was computed from.
C1_BatchTerminatesExact ==
    [][ /\ Variant' < Variant
        /\ pc' = "run" => RunCanStep'
        /\ pc' = "done" => BatchOutcomesExact' ]_vars

\* C1 witness: a run over several candidates with more than one worker ended
C1_Witness ==
    /\ pc = "done"
    /\ threads > 1
    /\ Len(results) = NumFiles
    /\ \E i \in 1..Len(results) : results[i].errors # <<>>

\* C2: a failure inside validate_file / migrate_file never leaves the
\* per-file operation: it is a finding of that file's own outcome, the run
\* is not aborted once the pool has started, and at the end every candidate
\* has its outcome.
C2_FailuresCaptured ==
    /\ \A i \in Paths :
         futures[i].done =>
           /\ ~futures[i].res.escaped
           /\ futures[i].path = potential_files[i]
           /\ futures[i].res.exc # "none" =>
                futures[i].res.errors \in {<<InvalidJSON>>, <<UnexpectedError>>}
    /\ pc = "aborted" => \A i \in Paths : ~futures[i].done
    /\ pc = "done" =>
         \A i \in 1..Len(potential_files) :
           /\ futures[i].done
           /\ i <= Len(results)
           /\ results[i].errors = futures[i].res.errors

\* C2 witness: a run ended in which one file failed and another did not
C2_Witness ==
    /\ pc = "done"
    /\ \E i, j \in 1..Len(results) :
         /\ futures[i].res.exc \in {"IOError", "TypeError", "AttributeError"}
         /\ results[i].errors = <<UnexpectedError>>
         /\ futures[j].res.exc = "none"

\* a rewrite rule of the migration fires on the document
RuleFired(doc) ==
    \/ doc.created_at.k = "str" /\ Contains(doc.created_at.s, OldSuffix)
    \/ doc.updated_at.k = "str" /\ Contains(doc.updated_at.s, OldSuffix)
    \/ \E key \in Markers : Has(doc, key)

\* C4 (as claimed): in migrate mode a file is opened for writing only when
\* a rewrite rule fired on it.
C4_WriteOnlyIfRuleFired ==
    \A wr \in writes : RuleFired(disk0[wr.path].doc)

\* C9 (as claimed): when the process is killed, every file holds its
\* complete original content or its complete rewritten content.
C9_RewriteAtomic ==
    pc = "crashed" =>
      \A p \in Paths :
        \/ disk[p] = disk0[p]
        \/ disk[p] = Written(disk0[p], Transform(disk0[p].doc).data)

\* C10: only migrate runs write; a worker opens for writing only the path
\* of the work item it holds, which is a candidate; no path is opened for
\* writing twice; and no file changes except through such a write.
C10_WritesOwnPathOnly ==
    /\ \A wr \in writes :
         /\ mode = "migrate"
         /\ wr.item \in 1..Len(potential_files)
         /\ wr.path = potential_files[wr.item]
         /\ wr.path \in Candidates
    /\ \A wr1, wr2 \in writes : wr1.path = wr2.path => wr1 = wr2
    /\ \A w \in Workers :
         wpc[w] = "dumping" =>
           [w |-> w, item |-> wtask[w], path |-> potential_files[wtask[w]]] \in writes
    /\ \A p \in Paths :
         /\ (mode = "validate" \/ p \notin Candidates) => disk[p] = disk0[p]
         /\ disk[p] # disk0[p] => \E wr \in writes : wr.path = p

\* C10 witness: two workers are rewriting their files at the same time
C10_Witness ==
    \E w1, w2 \in Workers :
      /\ w1 # w2
      /\ wpc[w1] = "dumping"
      /\ wpc[w2] = "dumping"
      /\ Cardinality(writes) = 2

(***************************************************************************)
(* Properties of the per-file functions                                    *)
(***************************************************************************)
\* C3 (as claimed): the second application of the migration leaves the
\* document as the first left it and reports no change.
C3_MigrationIdempotent ==
    (ufile0.raw = "value" /\ Len(upasses) = 2) =>
      /\ upasses[2].after = upasses[1].after
      /\ ~upasses[2].updated

\* C5 (as claimed): validate_vcon returns findings and never raises.
C5_NeverRaises ==
    uphase = "validated" => ~uval.raised

Count(errs, f) == Cardinality({i \in 1..Len(errs) : errs[i] = f})

\* C6 (as claimed): on an object, one "missing required field" finding per
\* absent field of vcon, uuid, created_at and none for a present one.
C6_MissingRequiredExact ==
    (uphase = "validated" /\ ufile.doc.shape = "obj") =>
      \A key \in {"vcon", "uuid", "created_at"} :
        Count(uval.errors, Finding("missing", key, -1))
          = IF Has(ufile.doc, key) THEN 0 ELSE 1

\* C7 (as claimed): exactly one mutual-exclusivity finding when more than
\* one of redacted, appended, group is present, none otherwise.
C7_ExclusiveExactlyOnce ==
    uphase = "validated" =>
      Count(uval.errors, Finding("mutually exclusive", "", -1))
        = IF ExclusiveCount(ufile.doc) > 1 THEN 1 ELSE 0

\* C8 (as claimed): the classifier answers true exactly for a file named
\* *.json (any case) whose content parses to an object with the key vcon,
\* false for every other file, and lets no exception out.
C8_ClassifierTotal ==
    uphase = "classified" =>
      ucls = IF /\ ufile.ext \in {".json", ".JSON"}
                /\ ufile.raw = "value"
                /\ ufile.doc.shape = "obj"
                /\ Has(ufile.doc, "vcon")
             THEN "true" ELSE "false"

=============================================================================
